---- MODULE Spec2Model ----
(***************************************************************************)
(* Model of src/server.py (Ultra Pomodoro backend): the hosts-file block    *)
(* manager (read_hosts, write_hosts, strip_ultra_block_section,            *)
(* expand_domains, apply_hosts_block, clear_hosts_block and their routes)  *)
(* and the Socket.IO room handlers (room:join, room:create, room:leave,    *)
(* timer:sync, timer:penalty).                                             *)
(*                                                                         *)
(* Text is modelled as a sequence of characters.  A raw domain string is a *)
(* sequence of one-character strings.  A hosts document is a sequence of   *)
(* tokens, each token standing for a run of characters that the code       *)
(* treats as a unit: a newline, a blank, a word of foreign text, the start *)
(* marker, the end marker, or one "127.0.0.1 <d>" / "::1 <d>" entry.       *)
(***************************************************************************)
EXTENDS Integers, Sequences, FiniteSets, TLC

VARIABLES
    \* ---- domain normalizer harness
    nIn, nOut, nOut2, npc,
    \* ---- hosts block manager
    root,        \* require_root(): os.geteuid() == 0
    hosts_file,  \* content of HOSTS_FILE
    hosts0,      \* content of HOSTS_FILE when the server started (history)
    prev,        \* content of HOSTS_FILE before the last request (history)
    last,        \* the last completed /api/block request and what it did
    last2,       \* the completed request before it
    ncalls,      \* number of /api/block requests made so far
    calls,       \* in-flight /api/block requests (concurrent specification)
    lastWriter,  \* the request whose write_hosts wrote last (history)
    \* ---- socket rooms
    connected,   \* sids of the connected clients
    rooms,       \* socketio.server.manager.rooms["/"]: room id -> set of sids
    joined,      \* history: per sid, the rooms it joined/created and has not left
    tasks,       \* in-flight event handlers
    inbox,       \* per sid, the events the server delivered to it, in order
    lastAck,     \* the value returned by the last completed handler
    nev          \* number of events handled so far

normVars  == <<nIn, nOut, nOut2, npc>>
hostsVars == <<root, hosts_file, hosts0, prev, last, last2, ncalls, calls, lastWriter>>
roomVars  == <<connected, rooms, joined, tasks, inbox, lastAck, nev>>
vars      == <<normVars, hostsVars, roomVars>>

\* ------------------------------------------------------------------------
\* Bounds
\* ------------------------------------------------------------------------
MaxList   == 2   \* length of a raw domain list given to expand_domains
MaxCalls  == 3   \* number of /api/block requests in one run
MaxEvents == 2   \* number of socket events in one run

\* ------------------------------------------------------------------------
\* Characters and strings (str methods used by the code)
\* ------------------------------------------------------------------------
Whitespace == {" ", "\t"}

\* str.lower() on one character
LowerChar(c) ==
    CASE c = "A" -> "a"
      [] c = "B" -> "b"
      [] c = "H" -> "h"
      [] c = "T" -> "t"
      [] c = "P" -> "p"
      [] c = "S" -> "s"
      [] c = "W" -> "w"
      [] OTHER   -> c

\* str.lower()
Lower(s) == [i \in 1..Len(s) |-> LowerChar(s[i])]

RECURSIVE LStrip(_)
\* str.lstrip()
LStrip(s) ==
    IF s = <<>> THEN <<>>
    ELSE IF Head(s) \in Whitespace THEN LStrip(Tail(s)) ELSE s

RECURSIVE RStrip(_)
\* str.rstrip()
RStrip(s) ==
    IF s = <<>> THEN <<>>
    ELSE IF s[Len(s)] \in Whitespace THEN RStrip(SubSeq(s, 1, Len(s) - 1)) ELSE s

\* str.strip()
Strip(s) == LStrip(RStrip(s))

\* str.startswith(p)
StartsWith(s, p) == Len(s) >= Len(p) /\ SubSeq(s, 1, Len(p)) = p

RECURSIVE BeforeFirst(_, _)
\* s.split(c)[0]: the part of s before the first c (all of s when c is absent)
BeforeFirst(s, c) ==
    IF s = <<>> THEN <<>>
    ELSE IF Head(s) = c THEN <<>>
    ELSE <<Head(s)>> \o BeforeFirst(Tail(s), c)

HTTP  == <<"h", "t", "t", "p", ":", "/", "/">>
HTTPS == <<"h", "t", "t", "p", "s", ":", "/", "/">>
WWW   == <<"w", "w", "w", ".">>

\* re.sub(r"^https?://", "", d)
StripScheme(d) ==
    IF StartsWith(d, HTTP) THEN SubSeq(d, Len(HTTP) + 1, Len(d))
    ELSE IF StartsWith(d, HTTPS) THEN SubSeq(d, Len(HTTPS) + 1, Len(d))
    ELSE d

\* ------------------------------------------------------------------------
\* expand_domains
\* ------------------------------------------------------------------------
\* Lines 114-119 for a d that passed the emptiness test of line 115.
Canon(d0) ==
    LET d1 == IF StartsWith(d0, HTTP) \/ StartsWith(d0, HTTPS)
              THEN StripScheme(d0) ELSE d0
    IN  BeforeFirst(d1, "/")

\* Lines 113-122: what one input string appends to out.
ExpandOne(raw) ==
    LET d0 == Lower(Strip(raw)) IN
    IF d0 = <<>> THEN <<>>
    ELSE LET d == Canon(d0) IN
         IF StartsWith(d, WWW) THEN <<d>> ELSE <<d, WWW \o d>>

RECURSIVE ExpandAll(_)
\* Lines 112-122: the list out after the first loop.
ExpandAll(domains) ==
    IF domains = <<>> THEN <<>>
    ELSE ExpandOne(Head(domains)) \o ExpandAll(Tail(domains))

RECURSIVE Uniq(_, _)
\* Lines 124-129: first-occurrence deduplication.
Uniq(out, seen) ==
    IF out = <<>> THEN <<>>
    ELSE IF Head(out) \in seen THEN Uniq(Tail(out), seen)
    ELSE <<Head(out)>> \o Uniq(Tail(out), seen \cup {Head(out)})

\* the deduplication of lines 123-129 left out
expand_domains_no_dedup(domains) == ExpandAll(domains)

\* Lines 111-130
expand_domains(domains) == Uniq(ExpandAll(domains), {})

\* ------------------------------------------------------------------------
\* Hosts documents
\* ------------------------------------------------------------------------
Tok(k, d) == [k |-> k, d |-> d]

NL  == Tok("nl", <<>>)          \* "\n"
SP  == Tok("sp", <<>>)          \* " "
TXT(x) == Tok("txt", <<x>>)     \* a word of text this program did not write
HOSTS_TAG_START == Tok("start", <<>>)
HOSTS_TAG_END   == Tok("end", <<>>)
V4(d) == Tok("v4", d)           \* f"127.0.0.1 {d}"
V6(d) == Tok("v6", d)           \* f"::1 {d}"

DocWhitespace == {NL, SP}

RECURSIVE DocRStrip(_)
\* str.rstrip() on a document
DocRStrip(t) ==
    IF t = <<>> THEN <<>>
    ELSE IF t[Len(t)] \in DocWhitespace THEN DocRStrip(SubSeq(t, 1, Len(t) - 1))
    ELSE t

\* Index of the first occurrence of x in t at or after position i, 0 if none.
FirstAt(t, x, i) ==
    IF \E j \in i..Len(t) : t[j] = x
    THEN CHOOSE j \in i..Len(t) : t[j] = x /\ \A m \in i..(j - 1) : t[m] # x
    ELSE 0

RECURSIVE RemoveBlocks(_)
\* re.sub(START .*? END, "", text) with re.DOTALL: every leftmost, shortest
\* span from a start marker to the next end marker is deleted.
RemoveBlocks(t) ==
    LET s == FirstAt(t, HOSTS_TAG_START, 1) IN
    IF s = 0 THEN t
    ELSE LET e == FirstAt(t, HOSTS_TAG_END, s + 1) IN
         IF e = 0 THEN t
         ELSE SubSeq(t, 1, s - 1) \o RemoveBlocks(SubSeq(t, e + 1, Len(t)))

\* the pattern matching from the top of the text when no start marker is there:
\* everything up to the first end marker is deleted
strip_from_top(hosts_text) ==
    LET e == FirstAt(hosts_text, HOSTS_TAG_END, 1) IN
    DocRStrip(SubSeq(hosts_text, e + 1, Len(hosts_text))) \o <<NL>>

\* Lines 103-109
strip_ultra_block_section(hosts_text) ==
    DocRStrip(RemoveBlocks(hosts_text)) \o <<NL>>

RECURSIVE EntryLines(_)
\* Lines 155-157: the two lines of every domain.
EntryLines(domains) ==
    IF domains = <<>> THEN <<>>
    ELSE <<V4(Head(domains)), V6(Head(domains))>> \o EntryLines(Tail(domains))

\* Lines 154-158
BlockLines(domains) ==
    <<HOSTS_TAG_START>> \o EntryLines(domains) \o <<HOSTS_TAG_END>>

RECURSIVE JoinNL(_)
\* "\n".join(lines)
JoinNL(lines) ==
    IF lines = <<>> THEN <<>>
    ELSE IF Len(lines) = 1 THEN lines
    ELSE <<Head(lines), NL>> \o JoinNL(Tail(lines))

\* Lines 151-160: the text apply_hosts_block writes, given what read_hosts returned.
NewHosts(read, domains) ==
    strip_ultra_block_section(read) \o <<NL>>
        \o JoinNL(BlockLines(expand_domains(domains))) \o <<NL>>

\* Lines 86-91: the file's content, or "" when open/read raises.
read_hosts(file) == {[ok |-> TRUE, text |-> file], [ok |-> FALSE, text |-> <<>>]}

\* Line 95: open(HOSTS_FILE, "w") truncates the file, or raises and leaves it.
hosts_open(file) == {[ok |-> TRUE, file |-> <<>>], [ok |-> FALSE, file |-> file]}

\* What a file holding `file` holds after `text` is written at offset 0 through
\* a descriptor of its own.
Overwrite(file, text) == text \o SubSeq(file, Len(text) + 1, Len(file))

\* A write that fails leaves a proper prefix of the text in the file (the
\* prefixes kept here are the empty one and the first half).
ShortWrites(text) == {SubSeq(text, 1, k) : k \in {0, Len(text) \div 2}}

\* Line 96 and the close of line 95's with-block: the text reaches the file, or
\* the write raises part-way.
hosts_write(file, text) ==
    {[ok |-> TRUE, file |-> Overwrite(file, text)]}
    \cup {[ok |-> FALSE, file |-> Overwrite(file, t)] : t \in ShortWrites(text)}

\* Lines 93-101: the outcomes of write_hosts(text) on a file holding `file`,
\* nothing else touching the file meanwhile.
write_hosts(file, text) ==
    {o \in hosts_open(file) : ~o.ok}
    \cup UNION {hosts_write(o.file, text) : o \in {x \in hosts_open(file) : x.ok}}

\* the privilege check left out
require_root_skipped == TRUE

\* Lines 82-84
require_root == root

\* Lines 132-145: what a call of flush_dns() did.  The caches were flushed, or
\* they were not (not macOS, or a command failed or could not be run: the
\* failure is swallowed); the function returns None either way.
flush_dns == {"flushed", "not_flushed"}

\* Lines 147-164: every outcome of apply_hosts_block(domains) on a file holding
\* `file`: the returned pair, the file afterwards, and the calls it made.
apply_hosts_block(file, domains) ==
    IF ~require_root
    THEN {[ok |-> FALSE, err |-> "permission", file |-> file,
           reads |-> 0, writes |-> 0, flushes |-> 0, flush |-> "none",
           rdok |-> TRUE]}
    ELSE UNION {
           UNION {
             {[ok |-> w.ok, err |-> IF w.ok THEN "" ELSE "write_failed",
               file |-> w.file, reads |-> 1, writes |-> 1,
               flushes |-> IF w.ok THEN 1 ELSE 0, flush |-> f, rdok |-> r.ok]
                : f \in IF w.ok THEN flush_dns ELSE {"none"}}
              : w \in write_hosts(file, NewHosts(r.text, domains))}
           : r \in read_hosts(file)}

\* Lines 166-173: every outcome of clear_hosts_block().
clear_hosts_block(file) ==
    IF ~require_root
    THEN {[ok |-> FALSE, err |-> "permission", file |-> file,
           reads |-> 0, writes |-> 0, flushes |-> 0, flush |-> "none",
           rdok |-> TRUE]}
    ELSE UNION {
           UNION {
             {[ok |-> w.ok, err |-> IF w.ok THEN "" ELSE "write_failed",
               file |-> w.file, reads |-> 1, writes |-> 1,
               flushes |-> IF w.ok THEN 1 ELSE 0, flush |-> f, rdok |-> r.ok]
                : f \in IF w.ok THEN flush_dns ELSE {"none"}}
              : w \in write_hosts(file, strip_ultra_block_section(r.text))}
           : r \in read_hosts(file)}

\* Lines 267 and 274: the HTTP status of a response.
HttpStatus(ok, err) == IF ok THEN 200 ELSE IF err = "permission" THEN 403 ELSE 500

\* a failed DNS flush reported as a failed write
Done_flush_decides(op, domains, o) ==
    LET ok == o.ok /\ o.flush # "not_flushed" IN
    [op |-> op, doms |-> domains, ok |-> ok,
     err |-> IF ok THEN "" ELSE IF o.err = "" THEN "write_failed" ELSE o.err,
     status |-> IF ok THEN 200 ELSE IF o.err = "permission" THEN 403 ELSE 500,
     reads |-> o.reads, writes |-> o.writes, flushes |-> o.flushes,
     flush |-> o.flush, rdok |-> o.rdok]

\* What is recorded of a completed request.
Done(op, domains, o) ==
    [op |-> op, doms |-> domains, ok |-> o.ok, err |-> o.err,
     status |-> HttpStatus(o.ok, o.err),
     reads |-> o.reads, writes |-> o.writes, flushes |-> o.flushes,
     flush |-> o.flush, rdok |-> o.rdok]

NoRequest ==
    [op |-> "none", doms |-> <<>>, ok |-> FALSE, err |-> "", status |-> 0,
     reads |-> 0, writes |-> 0, flushes |-> 0, flush |-> "none", rdok |-> TRUE]

NoWriter == [id |-> 0, op |-> "none", doms |-> <<>>]

\* ---- inputs -------------------------------------------------------------
Str_a  == <<"a">>
Str_b  == <<"b">>
\* the "domains" lists of the requests
DomainLists == { <<Str_a>>, <<Str_b>>, <<HTTP \o <<"A", "/", "p">>, WWW \o Str_a>> }

LineA == TXT("a")
LineB == TXT("b")
\* a tagged block as an earlier apply_hosts_block wrote it
OldBlock == JoinNL(BlockLines(expand_domains(<<Str_b>>)))

\* the hosts files the server may find when it starts
InitDocs ==
    { <<>>,
      <<LineA>>,
      <<LineA, NL>>,
      <<LineA, NL, NL>>,
      <<LineA, NL, LineB, NL>>,
      <<NL, LineA, SP, NL>>,
      <<LineA, NL, NL>> \o OldBlock \o <<NL>>,
      <<LineA, NL>> \o OldBlock \o <<NL, LineB, NL>>,
      <<HOSTS_TAG_END, NL, LineA, NL>>,
      <<LineA, NL, HOSTS_TAG_END, NL, LineB, NL, NL>>,
      <<HOSTS_TAG_START, NL, LineA, NL>> }

\* ---- idle values of the parts a specification does not exercise --------
NormIdle  == nIn = <<>> /\ nOut = <<>> /\ nOut2 = <<>> /\ npc = "off"
HostsIdle ==
    /\ root = FALSE /\ hosts_file = <<>> /\ hosts0 = <<>> /\ prev = <<>>
    /\ last = NoRequest /\ last2 = NoRequest /\ ncalls = 0
    /\ calls = {} /\ lastWriter = NoWriter
RoomsIdle ==
    /\ connected = {} /\ rooms = <<>> /\ joined = <<>> /\ tasks = {}
    /\ inbox = <<>> /\ lastAck = <<>> /\ nev = 0

\* ------------------------------------------------------------------------
\* Specification Spec: the /api/block routes, one request at a time
\* ------------------------------------------------------------------------
Init ==
    /\ root \in BOOLEAN
    /\ hosts0 \in InitDocs
    /\ hosts_file = hosts0
    /\ prev = hosts0
    /\ last = NoRequest /\ last2 = NoRequest /\ ncalls = 0
    /\ calls = {} /\ lastWriter = NoWriter
    /\ NormIdle /\ RoomsIdle

\* Lines 261-268: POST /api/block/apply
api_block_apply ==
    /\ ncalls < MaxCalls
    /\ \E domains \in DomainLists :
         \E o \in apply_hosts_block(hosts_file, domains) :
            /\ hosts_file' = o.file
            /\ last' = Done("apply", domains, o)
    /\ last2' = last
    /\ prev' = hosts_file
    /\ ncalls' = ncalls + 1
    /\ UNCHANGED <<root, hosts0, calls, lastWriter, normVars, roomVars>>

\* Lines 270-275: POST /api/block/clear
api_block_clear ==
    /\ ncalls < MaxCalls
    /\ \E o \in clear_hosts_block(hosts_file) :
         /\ hosts_file' = o.file
         /\ last' = Done("clear", <<>>, o)
    /\ last2' = last
    /\ prev' = hosts_file
    /\ ncalls' = ncalls + 1
    /\ UNCHANGED <<root, hosts0, calls, lastWriter, normVars, roomVars>>

Next == api_block_apply \/ api_block_clear

Spec == Init /\ [][Next]_vars

\* ------------------------------------------------------------------------
\* Vocabulary of the claims about the hosts document
\* ------------------------------------------------------------------------
Count(t, x) == Cardinality({i \in 1..Len(t) : t[i] = x})

NoMarkers(t) == Count(t, HOSTS_TAG_START) = 0 /\ Count(t, HOSTS_TAG_END) = 0

\* exactly one start marker followed by exactly one end marker
OneBlock(t) ==
    /\ Count(t, HOSTS_TAG_START) = 1
    /\ Count(t, HOSTS_TAG_END) = 1
    /\ FirstAt(t, HOSTS_TAG_START, 1) < FirstAt(t, HOSTS_TAG_END, 1)

\* at most one well-formed tagged block
WellFormed(t) == NoMarkers(t) \/ OneBlock(t)

\* the tagged block of a document that has one, markers included
BlockOf(t) ==
    SubSeq(t, FirstAt(t, HOSTS_TAG_START, 1), FirstAt(t, HOSTS_TAG_END, 1))

\* the document without its tagged block; a block that a short write left
\* without its end marker runs to the end of the document
OutsideOf(t) ==
    LET s == FirstAt(t, HOSTS_TAG_START, 1) IN
    IF s = 0 THEN t
    ELSE LET e == FirstAt(t, HOSTS_TAG_END, s + 1) IN
         IF e = 0 THEN SubSeq(t, 1, s - 1)
         ELSE SubSeq(t, 1, s - 1) \o SubSeq(t, e + 1, Len(t))

RECURSIVE SplitLines(_)
SplitLines(t) ==
    LET i == FirstAt(t, NL, 1) IN
    IF i = 0 THEN <<t>>
    ELSE <<SubSeq(t, 1, i - 1)>> \o SplitLines(SubSeq(t, i + 1, Len(t)))

RECURSIVE TrimRight(_)
TrimRight(line) ==
    IF line = <<>> THEN <<>>
    ELSE IF line[Len(line)] = SP THEN TrimRight(SubSeq(line, 1, Len(line) - 1))
    ELSE line

RECURSIVE NonBlank(_)
\* the non-blank lines, each without its trailing blanks
NonBlank(lines) ==
    IF lines = <<>> THEN <<>>
    ELSE IF TrimRight(Head(lines)) = <<>> THEN NonBlank(Tail(lines))
    ELSE <<TrimRight(Head(lines))>> \o NonBlank(Tail(lines))

\* the non-blank lines outside the tagged block
OutsideLines(t) == NonBlank(SplitLines(OutsideOf(t)))

RECURSIVE EntriesOf(_)
\* "127.0.0.1 d", "::1 d" for each d, every line ended by a newline
EntriesOf(ds) ==
    IF ds = <<>> THEN <<>>
    ELSE <<V4(Head(ds)), NL, V6(Head(ds)), NL>> \o EntriesOf(Tail(ds))

NoDuplicates(q) == \A i, j \in 1..Len(q) : q[i] = q[j] => i = j

\* C1: starting from a hosts document with at most one well-formed tagged
\* block, after any sequence of Apply and Clear requests (failed reads and
\* writes included) the non-blank lines outside the tagged block are those of
\* the initial document, in the same order.
C1_OutsideNeverModified ==
    WellFormed(hosts0) => OutsideLines(hosts_file) = OutsideLines(hosts0)

\* C2: two successful Apply(D) requests in a row leave the document one
\* Apply(D) leaves, and it holds exactly one tagged block whose entries are the
\* 127.0.0.1 and ::1 lines of normalize(D), in order, none twice.
C2_ApplyIdempotent ==
    ( /\ last2.op = "apply" /\ last2.ok
      /\ last.op = "apply" /\ last.ok
      /\ last.doms = last2.doms )
    => /\ hosts_file = prev
       /\ OneBlock(hosts_file)
       /\ BlockOf(hosts_file) =
             <<HOSTS_TAG_START, NL>> \o EntriesOf(expand_domains(last.doms))
                 \o <<HOSTS_TAG_END>>
       /\ NoDuplicates(expand_domains(last.doms))

\* C3: for an initial document H without tagged block, a successful Apply(D)
\* followed by a successful Clear() (both having read the file) leaves a
\* document without tagged block that is H, byte for byte.
C3_RoundTrip ==
    ( /\ ncalls = 2 /\ NoMarkers(hosts0)
      /\ last2.op = "apply" /\ last2.ok /\ last2.rdok
      /\ last.op = "clear" /\ last.ok /\ last.rdok )
    => hosts_file = hosts0 /\ NoMarkers(hosts_file)

\* C4: a request made without elevated privilege fails with "permission"
\* (HTTP 403), reads and writes nothing, flushes no DNS cache and leaves the
\* hosts document as it was.
C4_NoPrivilegeNoAccess ==
    (~root /\ last.op # "none")
    => /\ ~last.ok /\ last.err = "permission" /\ last.status = 403
       /\ last.reads = 0 /\ last.writes = 0 /\ last.flushes = 0
       /\ hosts_file = prev /\ hosts_file = hosts0

\* C4 witness: without privilege an Apply and then a Clear were answered, on a
\* document that holds foreign text and a tagged block.
C4_Witness ==
    /\ ~root /\ last2.op = "apply" /\ last.op = "clear"
    /\ OneBlock(hosts0) /\ OutsideLines(hosts0) # <<>>

\* the document has an end marker with no start marker before it
StrayEnd(t) ==
    LET e == FirstAt(t, HOSTS_TAG_END, 1)
        st == FirstAt(t, HOSTS_TAG_START, 1)
    IN  e # 0 /\ (st = 0 \/ e < st)

\* the part of the document before its first start marker (all of it when it
\* has none)
BeforeStart(t) ==
    LET st == FirstAt(t, HOSTS_TAG_START, 1) IN
    IF st = 0 THEN t ELSE SubSeq(t, 1, st - 1)

IsForeign(tok) == tok.k = "txt"

ProperPrefix(p, t) == Len(p) < Len(t) /\ SubSeq(t, 1, Len(p)) = p

\* C14: every Apply and Clear ends in exactly one of success (HTTP 200),
\* "permission" (HTTP 403) and "write_failed" (HTTP 500).  It is "permission"
\* exactly when the privilege is absent.  With the privilege, success means the
\* whole new text is in the file, and "write_failed" means the file was left
\* as it was or holds a proper prefix of the new text.  The DNS flush is called
\* exactly when the write completed, and the outcome is success whether or not
\* the flush worked.
C14_Outcomes ==
    last.op \in {"apply", "clear"}
    => LET o == last
           r == CHOOSE x \in read_hosts(prev) : x.ok = o.rdok
           text == IF o.op = "apply" THEN NewHosts(r.text, o.doms)
                   ELSE strip_ultra_block_section(r.text)
       IN  /\ \/ o.ok /\ o.err = "" /\ o.status = 200
              \/ ~o.ok /\ o.err = "permission" /\ o.status = 403
              \/ ~o.ok /\ o.err = "write_failed" /\ o.status = 500
           /\ o.err = "permission" <=> ~root
           /\ o.ok => hosts_file = text
           /\ o.err = "write_failed"
                 => \/ hosts_file = prev
                    \/ ProperPrefix(hosts_file, text)
           /\ o.flushes = (IF o.ok THEN 1 ELSE 0)
           /\ o.flush \in flush_dns <=> o.ok

\* C14 witness: a privileged request whose write failed was answered 500
\* write_failed without a flush; the next one wrote the file, its flush did
\* not work, and it was answered 200.
C14_Witness ==
    /\ root
    /\ last2.err = "write_failed" /\ last2.status = 500 /\ last2.flushes = 0
    /\ last.ok /\ last.status = 200 /\ last.flush = "not_flushed"
    /\ last.op = "apply" /\ hosts_file = NewHosts(prev, last.doms)

\* ------------------------------------------------------------------------
\* Specification SpecConc: /api/block requests served concurrently (the
\* threading async mode), each step of a request a step of its own
\* ------------------------------------------------------------------------
\* the hosts files the concurrent runs start from
ConcDocs == { <<LineA, NL>>, <<LineA, NL, NL>> \o OldBlock \o <<NL>> }

\* the "domains" lists of the concurrent requests
ConcLists == { <<Str_a>>, <<Str_b>> }

InitConc ==
    /\ root \in BOOLEAN
    /\ hosts0 \in ConcDocs
    /\ hosts_file = hosts0
    /\ prev = hosts0
    /\ last = NoRequest /\ last2 = NoRequest /\ ncalls = 0
    /\ calls = {} /\ lastWriter = NoWriter
    /\ NormIdle /\ RoomsIdle

Call(id, op, domains, pc, text, rdok, ok) ==
    [id |-> id, op |-> op, doms |-> domains, pc |-> pc, text |-> text,
     rdok |-> rdok, ok |-> ok]

\* Lines 148-149 and 167-168: a request arrives and passes require_root, or is
\* answered "permission" at once.
Begin(op, domains) ==
    /\ ncalls < MaxCalls
    /\ ncalls' = ncalls + 1
    /\ IF require_root
       THEN /\ calls' = calls \cup
                   {Call(ncalls + 1, op, domains, "read", <<>>, TRUE, FALSE)}
            /\ UNCHANGED <<last, last2>>
       ELSE /\ last' = Done(op, domains,
                   [ok |-> FALSE, err |-> "permission", reads |-> 0,
                    writes |-> 0, flushes |-> 0, flush |-> "none",
                    rdok |-> TRUE])
            /\ last2' = last
            /\ UNCHANGED calls
    /\ UNCHANGED <<root, hosts_file, hosts0, prev, lastWriter, normVars, roomVars>>

BeginApply == \E domains \in ConcLists : Begin("apply", domains)

BeginClear == Begin("clear", <<>>)

\* Lines 151-160 and 169: read_hosts(), then the text to write is computed.
Read(c) ==
    /\ c.pc = "read"
    /\ \E r \in read_hosts(hosts_file) :
         calls' = (calls \ {c}) \cup
            {[c EXCEPT !.pc = "open", !.rdok = r.ok,
                       !.text = IF c.op = "apply" THEN NewHosts(r.text, c.doms)
                                ELSE strip_ultra_block_section(r.text)]}
    /\ UNCHANGED <<root, hosts_file, hosts0, prev, last, last2, ncalls,
                   lastWriter, normVars, roomVars>>

\* Line 95: open(HOSTS_FILE, "w").
Open(c) ==
    /\ c.pc = "open"
    /\ \E o \in hosts_open(hosts_file) :
         /\ hosts_file' = o.file
         /\ IF o.ok
            THEN /\ calls' = (calls \ {c}) \cup {[c EXCEPT !.pc = "write"]}
                 /\ UNCHANGED <<last, last2>>
            ELSE /\ calls' = (calls \ {c}) \cup {[c EXCEPT !.pc = "done"]}
                 /\ last' = Done(c.op, c.doms,
                        [ok |-> FALSE, err |-> "write_failed", reads |-> 1,
                         writes |-> 1, flushes |-> 0, flush |-> "none",
                         rdok |-> c.rdok])
                 /\ last2' = last
    /\ UNCHANGED <<root, hosts0, prev, ncalls, lastWriter, normVars, roomVars>>

\* Line 96 and the close of the file.
Write(c) ==
    /\ c.pc = "write"
    /\ \E w \in hosts_write(hosts_file, c.text) :
         /\ hosts_file' = w.file
         /\ IF w.ok
            THEN /\ calls' = (calls \ {c}) \cup {[c EXCEPT !.pc = "flush"]}
                 /\ lastWriter' = [id |-> c.id, op |-> c.op, doms |-> c.doms]
                 /\ UNCHANGED <<last, last2>>
            ELSE /\ calls' = (calls \ {c}) \cup {[c EXCEPT !.pc = "done"]}
                 /\ last' = Done(c.op, c.doms,
                        [ok |-> FALSE, err |-> "write_failed", reads |-> 1,
                         writes |-> 1, flushes |-> 0, flush |-> "none",
                         rdok |-> c.rdok])
                 /\ last2' = last
                 /\ UNCHANGED lastWriter
    /\ UNCHANGED <<root, hosts0, prev, ncalls, normVars, roomVars>>

\* Lines 162-163 and 171-172: flush_dns(), return True, None.
Flush(c) ==
    /\ c.pc = "flush"
    /\ calls' = (calls \ {c}) \cup {[c EXCEPT !.pc = "done", !.ok = TRUE]}
    /\ \E f \in flush_dns :
         last' = Done(c.op, c.doms,
                    [ok |-> TRUE, err |-> "", reads |-> 1, writes |-> 1,
                     flushes |-> 1, flush |-> f, rdok |-> c.rdok])
    /\ last2' = last
    /\ UNCHANGED <<root, hosts_file, hosts0, prev, ncalls, lastWriter,
                   normVars, roomVars>>

NextConc ==
    \/ BeginApply
    \/ BeginClear
    \/ \E c \in calls : Read(c)
    \/ \E c \in calls : Open(c)
    \/ \E c \in calls : Write(c)
    \/ \E c \in calls : Flush(c)

SpecConc == InitConc /\ [][NextConc]_vars

\* what request w leaves when it runs alone on document h and nothing fails
Alone(w, h) ==
    IF w.op = "apply" THEN NewHosts(h, w.doms) ELSE strip_ultra_block_section(h)

\* C5: last writer wins.  Once two or more privileged requests have all
\* completed (no read, open or write having failed), the hosts document is the
\* one the request that wrote last leaves when it runs alone on the initial
\* document: at most one tagged block, holding that request's domains, and the
\* initial content outside it.
C5_LastWriterWins ==
    ( /\ ncalls >= 2 /\ Cardinality(calls) = ncalls
      /\ \A c \in calls : c.pc = "done" /\ c.ok /\ c.rdok )
    => /\ hosts_file = Alone(lastWriter, hosts0)
       /\ WellFormed(hosts_file)
       /\ OutsideLines(hosts_file) = OutsideLines(hosts0)

\* ------------------------------------------------------------------------
\* Socket rooms
\* ------------------------------------------------------------------------
Sids == {"s1", "s2", "s3"}

Room_r == <<"r">>
Room_g == <<"g">>
Room_h == <<"h">>

\* data.get("roomId", "") as clients send it (absent counts as "")
RawRoomIds == { <<>>, <<" ", "r", " ">>, Room_g }

\* the values secrets.token_hex gives new_room_id in this model
GenRoomIds == { Room_g, Room_h }

\* every room id a handler can end up with
RoomIds == ({Strip(raw) : raw \in RawRoomIds} \cup GenRoomIds) \ {<<>>}

\* the other fields of a timer payload
Payloads == {"p1"}

RoomEvents  == {"room:join", "room:create", "room:leave"}
TimerEvents == {"timer:sync", "timer:penalty"}

\* the number of rooms of the namespace, whatever the room asked for
members_in_len_rooms(room_id) == Cardinality({r \in RoomIds : rooms[r] # {}})

\* Lines 292-294
members_in(room_id) == Cardinality(rooms[room_id])

\* Lines 296-297
new_room_id == GenRoomIds

\* an event as a client receives it
Msg(ev, roomId, members, x) ==
    [ev |-> ev, roomId |-> roomId, members |-> members, x |-> x]

\* emit(.., room=to): the event is appended to the inbox of every sid of `to`
Deliver(to, msg) ==
    [s \in Sids |-> IF s \in to THEN Append(inbox[s], msg) ELSE inbox[s]]

\* the memberships the runs start from: every one is what earlier room:join
\* events of the three connected clients leave
InitMemberships ==
    { [r \in RoomIds |-> {}],
      [r \in RoomIds |-> IF r = Room_r THEN {"s1"} ELSE {}],
      [r \in RoomIds |-> IF r = Room_r THEN {"s1", "s2"} ELSE {}],
      [r \in RoomIds |-> IF r = Room_r THEN {"s1", "s2"}
                         ELSE IF r = Room_g THEN {"s1"} ELSE {}],
      [r \in RoomIds |-> IF r = Room_r THEN {"s1", "s2"}
                         ELSE IF r = Room_g THEN {"s1", "s3"} ELSE {}] }

NoAck == [id |-> 0, sid |-> "", ev |-> "", ack |-> [kind |-> "none"]]

InitRooms ==
    /\ connected = Sids
    /\ rooms \in InitMemberships
    /\ joined = [s \in Sids |-> {r \in RoomIds : s \in rooms[r]}]
    /\ tasks = {}
    /\ inbox = [s \in Sids |-> <<>>]
    /\ lastAck = NoAck
    /\ nev = 0
    /\ NormIdle /\ HostsIdle

\* A client disconnects.  server.py registers no "disconnect" handler: the
\* SocketIO server of lines 68-74 drops the sid from every room and nothing
\* else runs.  A sid disconnects here once its handlers have returned.
Disconnect(s) ==
    /\ s \in connected
    /\ \A t \in tasks : t.sid # s
    /\ connected' = connected \ {s}
    /\ rooms' = [r \in RoomIds |-> rooms[r] \ {s}]
    /\ UNCHANGED <<joined, tasks, inbox, lastAck, nev, normVars, hostsVars>>

\* An event arrives and its handler is started.
Event(s, ev, raw, x) ==
    /\ nev < MaxEvents
    /\ s \in connected
    /\ nev' = nev + 1
    /\ tasks' = tasks \cup
          {[id |-> nev + 1, sid |-> s, ev |-> ev, raw |-> raw, x |-> x,
            room |-> <<>>, pc |-> "enter", n |-> 0]}
    /\ UNCHANGED <<connected, rooms, joined, inbox, lastAck,
                   normVars, hostsVars>>

RoomEvent == \E s \in Sids, ev \in RoomEvents, raw \in RawRoomIds :
                Event(s, ev, raw, "")

TimerEvent == \E s \in Sids, ev \in TimerEvents, raw \in RawRoomIds, x \in Payloads :
                Event(s, ev, raw, x)

Finish(t, ack) ==
    /\ tasks' = tasks \ {t}
    /\ lastAck' = [id |-> t.id, sid |-> t.sid, ev |-> t.ev, ack |-> ack]

Goto(t, pc) == tasks' = (tasks \ {t}) \cup {[t EXCEPT !.pc = pc]}

\* Lines 301-303 and 327-329: room:join or room:leave without a room id.
MissingRoomId(t) ==
    /\ t.pc = "enter" /\ t.ev \in {"room:join", "room:leave"}
    /\ Strip(t.raw) = <<>>
    /\ Finish(t, [kind |-> "error", error |-> "missing roomId"])
    /\ UNCHANGED <<connected, rooms, joined, inbox, nev, normVars, hostsVars>>

\* Lines 301-304 and 315-316: join_room(room_id).
JoinRoom(t) ==
    /\ t.pc = "enter" /\ t.ev \in {"room:join", "room:create"}
    /\ \E room_id \in IF Strip(t.raw) # <<>> THEN {Strip(t.raw)}
                      ELSE IF t.ev = "room:create" THEN new_room_id ELSE {} :
         /\ rooms' = [rooms EXCEPT ![room_id] = @ \cup {t.sid}]
         /\ joined' = [joined EXCEPT ![t.sid] = @ \cup {room_id}]
         /\ tasks' = (tasks \ {t}) \cup {[t EXCEPT !.pc = "c1", !.room = room_id]}
    /\ UNCHANGED <<connected, inbox, lastAck, nev, normVars, hostsVars>>

\* leave_room taking the sid out of every room
LeaveRoom_every_room(t) ==
    /\ t.pc = "enter" /\ t.ev = "room:leave"
    /\ Strip(t.raw) # <<>>
    /\ rooms' = [r \in RoomIds |-> rooms[r] \ {t.sid}]
    /\ joined' = [joined EXCEPT ![t.sid] = {}]
    /\ tasks' = (tasks \ {t}) \cup {[t EXCEPT !.pc = "c1", !.room = Strip(t.raw)]}
    /\ UNCHANGED <<connected, inbox, lastAck, nev, normVars, hostsVars>>

\* Lines 327-330: leave_room(room_id).
LeaveRoom(t) ==
    /\ t.pc = "enter" /\ t.ev = "room:leave"
    /\ Strip(t.raw) # <<>>
    /\ rooms' = [rooms EXCEPT ![Strip(t.raw)] = @ \ {t.sid}]
    /\ joined' = [joined EXCEPT ![t.sid] = @ \ {Strip(t.raw)}]
    /\ tasks' = (tasks \ {t}) \cup {[t EXCEPT !.pc = "c1", !.room = Strip(t.raw)]}
    /\ UNCHANGED <<connected, inbox, lastAck, nev, normVars, hostsVars>>

\* Lines 306, 309, 318, 321, 332, 335: members_in(room_id) is evaluated for the
\* payload of the next emit.
ReadCount(t) ==
    /\ t.pc \in {"c1", "c2"}
    /\ tasks' = (tasks \ {t}) \cup
          {[t EXCEPT !.n = members_in(t.room),
                     !.pc = IF t.pc = "c1" THEN "e1" ELSE "e2"]}
    /\ UNCHANGED <<connected, rooms, joined, inbox, lastAck, nev,
                   normVars, hostsVars>>

\* the event a handler sends to its own client
SelfEvent(ev) ==
    CASE ev = "room:join"   -> "room:joined"
      [] ev = "room:create" -> "room:created"
      [] ev = "room:leave"  -> "room:left"

\* Lines 305-307, 317-319, 334-336: emit(.., room=request.sid).
EmitSelf(t) ==
    /\ \/ t.pc = "e1" /\ t.ev \in {"room:join", "room:create"}
       \/ t.pc = "e2" /\ t.ev = "room:leave"
    /\ inbox' = Deliver({t.sid} \cap connected, Msg(SelfEvent(t.ev), t.room, t.n, ""))
    /\ Goto(t, IF t.pc = "e1" THEN "c2" ELSE "ret")
    /\ UNCHANGED <<connected, rooms, joined, lastAck, nev, normVars, hostsVars>>

\* room:members sent to the room without the acting client
EmitRoom_skip_sender(t) ==
    /\ \/ t.pc = "e2" /\ t.ev \in {"room:join", "room:create"}
       \/ t.pc = "e1" /\ t.ev = "room:leave"
    /\ inbox' = Deliver(rooms[t.room] \ {t.sid}, Msg("room:members", t.room, t.n, ""))
    /\ Goto(t, IF t.pc = "e1" THEN "c2" ELSE "ret")
    /\ UNCHANGED <<connected, rooms, joined, lastAck, nev, normVars, hostsVars>>

\* Lines 308-310, 320-322, 331-333: emit("room:members", .., room=room_id).
EmitRoom(t) ==
    /\ \/ t.pc = "e2" /\ t.ev \in {"room:join", "room:create"}
       \/ t.pc = "e1" /\ t.ev = "room:leave"
    /\ inbox' = Deliver(rooms[t.room], Msg("room:members", t.room, t.n, ""))
    /\ Goto(t, IF t.pc = "e1" THEN "c2" ELSE "ret")
    /\ UNCHANGED <<connected, rooms, joined, lastAck, nev, normVars, hostsVars>>

\* Lines 311, 323, 337: return {"ok": True, "roomId": .., "members": members_in(..)}.
Return(t) ==
    /\ t.pc = "ret"
    /\ Finish(t, [kind |-> "ok", roomId |-> t.room, members |-> members_in(t.room)])
    /\ UNCHANGED <<connected, rooms, joined, inbox, nev, normVars, hostsVars>>

\* the event a timer handler relays
RelayEvent(ev) == IF ev = "timer:sync" THEN "timer:state" ELSE "timer:penalty"

\* the early return of lines 342-343 and 349-350 left out: the event goes to
\* every other connected client
Discard_emits(t) ==
    /\ t.pc = "enter" /\ t.ev \in TimerEvents
    /\ Strip(t.raw) = <<>>
    /\ inbox' = Deliver(connected \ {t.sid}, Msg(RelayEvent(t.ev), t.raw, -1, t.x))
    /\ Finish(t, [kind |-> "none"])
    /\ UNCHANGED <<connected, rooms, joined, nev, normVars, hostsVars>>

\* Lines 341-343 and 348-350: a timer event without a room id is dropped.
Discard(t) ==
    /\ t.pc = "enter" /\ t.ev \in TimerEvents
    /\ Strip(t.raw) = <<>>
    /\ Finish(t, [kind |-> "none"])
    /\ UNCHANGED <<connected, rooms, joined, inbox, nev, normVars, hostsVars>>

\* include_self left at its default
Recipients_include_self(room_id, sid) == rooms[room_id]

\* Lines 344 and 351: the sids emit(.., room=room_id, include_self=False) reaches.
Recipients(room_id, sid) == rooms[room_id] \ {sid}

\* the event relayed only when its sender is in the room
Relay_from_members_only(t) ==
    /\ t.pc = "enter" /\ t.ev \in TimerEvents
    /\ Strip(t.raw) # <<>>
    /\ inbox' = Deliver(IF t.sid \in rooms[Strip(t.raw)]
                        THEN Recipients(Strip(t.raw), t.sid) ELSE {},
                        Msg(RelayEvent(t.ev), t.raw, -1, t.x))
    /\ Finish(t, [kind |-> "none"])
    /\ UNCHANGED <<connected, rooms, joined, nev, normVars, hostsVars>>

\* Lines 344 and 351: emit(.., data, room=room_id, include_self=False).
Relay(t) ==
    /\ t.pc = "enter" /\ t.ev \in TimerEvents
    /\ Strip(t.raw) # <<>>
    /\ inbox' = Deliver(Recipients(Strip(t.raw), t.sid),
                        Msg(RelayEvent(t.ev), t.raw, -1, t.x))
    /\ Finish(t, [kind |-> "none"])
    /\ UNCHANGED <<connected, rooms, joined, nev, normVars, hostsVars>>

\* Specification SpecRooms: the handlers run one at a time, each to its end.
NextRooms ==
    \/ tasks = {} /\ \E s \in Sids : Disconnect(s)
    \/ tasks = {} /\ RoomEvent
    \/ tasks = {} /\ TimerEvent
    \/ \E t \in tasks : MissingRoomId(t)
    \/ \E t \in tasks : JoinRoom(t)
    \/ \E t \in tasks : LeaveRoom(t)
    \/ \E t \in tasks : ReadCount(t)
    \/ \E t \in tasks : EmitSelf(t)
    \/ \E t \in tasks : EmitRoom(t)
    \/ \E t \in tasks : Return(t)
    \/ \E t \in tasks : Discard(t)
    \/ \E t \in tasks : Relay(t)

SpecRooms == InitRooms /\ [][NextRooms]_vars

\* ------------------------------------------------------------------------
\* Specification SpecRoomsConc: handlers of several clients run at the same
\* time (the threading async mode), their steps interleaved
\* ------------------------------------------------------------------------
ConcRawRoomIds == { <<" ", "r", " ">> }

InitRoomsConc ==
    /\ connected = Sids
    /\ rooms = [r \in RoomIds |-> {}]
    /\ joined = [s \in Sids |-> {}]
    /\ tasks = {}
    /\ inbox = [s \in Sids |-> <<>>]
    /\ lastAck = NoAck
    /\ nev = 0
    /\ NormIdle /\ HostsIdle

JoinEventConc == \E s \in Sids, raw \in ConcRawRoomIds : Event(s, "room:join", raw, "")

TimerEventConc == \E s \in Sids, ev \in TimerEvents, raw \in ConcRawRoomIds, x \in Payloads :
                    Event(s, ev, raw, x)

NextRoomsConc ==
    \/ JoinEventConc
    \/ TimerEventConc
    \/ \E t \in tasks : JoinRoom(t)
    \/ \E t \in tasks : ReadCount(t)
    \/ \E t \in tasks : EmitSelf(t)
    \/ \E t \in tasks : EmitRoom(t)
    \/ \E t \in tasks : Return(t)
    \/ \E t \in tasks : Relay(t)

SpecRoomsConc == InitRoomsConc /\ [][NextRoomsConc]_vars

\* ------------------------------------------------------------------------
\* Specification SpecRelayConc: timer events sent to room r, every handler in
\* a thread of its own (the server of lines 68-74 is created without
\* async_handlers=False, so it does not wait for a client's earlier handler
\* before it starts the next)
\* ------------------------------------------------------------------------
NextRelayConc ==
    \/ TimerEventConc
    \/ \E t \in tasks : Relay(t)

SpecRelayConc == InitRooms /\ [][NextRelayConc]_vars

\* ------------------------------------------------------------------------
\* Specification SpecRoomsBlank: the handlers one at a time, the clients
\* sending room ids that are absent, blank, or padded with blanks
\* ------------------------------------------------------------------------
BlankRawRoomIds == { <<>>, <<" ">>, <<" ", "r", " ">> }

RoomEventBlank == \E s \in Sids, ev \in RoomEvents, raw \in BlankRawRoomIds :
                     Event(s, ev, raw, "")

TimerEventBlank ==
    \E s \in Sids, ev \in TimerEvents, raw \in BlankRawRoomIds, x \in Payloads :
       Event(s, ev, raw, x)

NextRoomsBlank ==
    \/ tasks = {} /\ RoomEventBlank
    \/ tasks = {} /\ TimerEventBlank
    \/ \E t \in tasks : MissingRoomId(t)
    \/ \E t \in tasks : JoinRoom(t)
    \/ \E t \in tasks : LeaveRoom(t)
    \/ \E t \in tasks : ReadCount(t)
    \/ \E t \in tasks : EmitSelf(t)
    \/ \E t \in tasks : EmitRoom(t)
    \/ \E t \in tasks : Return(t)
    \/ \E t \in tasks : Discard(t)
    \/ \E t \in tasks : Relay(t)

SpecRoomsBlank == InitRooms /\ [][NextRoomsBlank]_vars

\* ------------------------------------------------------------------------
\* Claims about the rooms
\* ------------------------------------------------------------------------
\* C6: when a client that is a member of rooms disconnects, every remaining
\* member of each such room receives a room:members event carrying that room's
\* new member count.
C6_DisconnectBroadcasts ==
    [][\A s \in Sids :
         (s \in connected /\ s \notin connected')
         => \A r \in RoomIds :
              s \in rooms[r]
              => \A m \in rooms[r] \ {s} :
                   \E i \in (Len(inbox[m]) + 1)..Len(inbox'[m]) :
                      inbox'[m][i] =
                        Msg("room:members", r, Cardinality(rooms[r] \ {s}), "")]_vars

\* the connected clients that joined or created room r and have not left it
CurrentJoiners(r) == {s \in connected : r \in joined[s]}

\* C7: the member count of a room is the number of connected clients that
\* joined or created it and have not left it since (zero for a room nobody is
\* in), and a disconnect lowers by exactly one the count of every room the
\* client was in and leaves the other counts alone.
C7_MemberCount ==
    /\ [](\A r \in RoomIds : members_in(r) = Cardinality(CurrentJoiners(r)))
    /\ [][\A s \in Sids :
            (s \in connected /\ s \notin connected')
            => \A r \in RoomIds :
                 Cardinality(rooms'[r]) =
                    IF r \in joined[s] THEN Cardinality(rooms[r]) - 1
                    ELSE Cardinality(rooms[r])]_vars

\* C7 witness: s1, which had joined two rooms, has disconnected; one of them is
\* now empty and the other keeps its other member.
C7_Witness ==
    /\ "s1" \notin connected
    /\ joined["s1"] = {Room_r, Room_g}
    /\ \E r1, r2 \in joined["s1"] :
          /\ members_in(r1) = 0
          /\ members_in(r2) = 1 /\ CurrentJoiners(r2) # {}

\* the last member count s received for room r, 0 if it received none
LastCount(s, r) ==
    LET at == {i \in 1..Len(inbox[s]) :
                 /\ inbox[s][i].roomId = r
                 /\ inbox[s][i].ev \in {"room:joined", "room:members"}}
    IN  IF at = {} THEN 0
        ELSE inbox[s][CHOOSE i \in at : \A j \in at : j <= i].members

\* C8: two clients have each joined the same empty room and both handlers have
\* returned (nothing else happened): the room's member count is 2 and the last
\* member count each of the two received for the room is 2.
C8_BothObserveTwo ==
    \A a, b \in Sids :
       ( /\ a # b /\ nev = 2 /\ tasks = {}
         /\ \E i \in 1..Len(inbox[a]) : inbox[a][i].ev = "room:joined"
         /\ \E i \in 1..Len(inbox[b]) : inbox[b][i].ev = "room:joined" )
       => /\ members_in(Room_r) = 2
          /\ LastCount(a, Room_r) = 2
          /\ LastCount(b, Room_r) = 2

\* C9: a timer:sync or timer:penalty event with a non-empty trimmed roomId is
\* delivered, payload unchanged, as timer:state or timer:penalty, to the
\* members of the room at the time of the relay other than the sender, and to
\* nobody else.
C9_RelayToOthersOnly ==
    [][\A t \in tasks :
         ( /\ t.ev \in {"timer:sync", "timer:penalty"}
           /\ Strip(t.raw) # <<>>
           /\ t \notin tasks' )
         => \A s \in Sids :
              inbox'[s] =
                IF s \in rooms[Strip(t.raw)] /\ s # t.sid
                THEN Append(inbox[s],
                       [ev |-> IF t.ev = "timer:sync" THEN "timer:state"
                               ELSE "timer:penalty",
                        roomId |-> t.raw, members |-> -1, x |-> t.x])
                ELSE inbox[s]]_vars

\* C9 witness: a member of room r sent timer:sync; the other member of the room
\* received timer:state, the sender and the client outside the room nothing.
C9_Witness ==
    /\ nev = 1 /\ tasks = {}
    /\ lastAck.ev = "timer:sync" /\ lastAck.sid = "s1"
    /\ rooms[Room_r] = {"s1", "s2"}
    /\ inbox["s1"] = <<>>
    /\ inbox["s3"] = <<>>
    /\ inbox["s2"] = <<Msg("timer:state", <<" ", "r", " ">>, -1, "p1")>>

\* ------------------------------------------------------------------------
\* Specification SpecNorm: expand_domains on the domains of a request, and
\* again on the list it returned
\* ------------------------------------------------------------------------
Schemes   == { <<>>, HTTP, <<"H", "T", "T", "P", "S", ":", "/", "/">> }
Prefixes  == { <<>>, WWW }
HostNames == { <<>>, <<"a">>, <<"B">>, <<"a", " ">> }
Paths     == { <<>>, <<"/", "p">> }

\* the raw domain strings of the requests
RawDomains ==
    {sc \o pf \o h \o pa : sc \in Schemes, pf \in Prefixes, h \in HostNames, pa \in Paths}
    \cup { <<" ">>, <<" ", "a", " ">>, <<"/", "a">> }

\* the lists of at most n raw domain strings
RawLists(n) == UNION {[1..k -> RawDomains] : k \in 0..n}

InitNorm ==
    /\ nIn \in RawLists(MaxList)
    /\ nOut = <<>> /\ nOut2 = <<>> /\ npc = "in"
    /\ HostsIdle /\ RoomsIdle

\* Line 285: expand_domains on the request's domains.
Normalize ==
    /\ npc = "in"
    /\ nOut' = expand_domains(nIn)
    /\ npc' = "once"
    /\ UNCHANGED <<nIn, nOut2, hostsVars, roomVars>>

\* Line 285 again, on the list the first call returned.
NormalizeAgain ==
    /\ npc = "once"
    /\ nOut2' = expand_domains(nOut)
    /\ npc' = "twice"
    /\ UNCHANGED <<nIn, nOut, hostsVars, roomVars>>

NextNorm == Normalize \/ NormalizeAgain

SpecNorm == InitNorm /\ [][NextNorm]_vars

\* C10: normalizing the normalized list gives the normalized list again.
C10_NormalizeIdempotent == npc = "twice" => nOut2 = nOut

\* a valid Domain: non-empty, lowercase, no leading scheme, no "/"
ValidDomain(d) ==
    /\ d # <<>>
    /\ Lower(d) = d
    /\ ~StartsWith(d, HTTP) /\ ~StartsWith(d, HTTPS)
    /\ \A i \in 1..Len(d) : d[i] # "/"

\* the canonical form of a raw input: trimmed, lowercased, scheme stripped,
\* cut at the first "/"
CanonicalForm(raw) == BeforeFirst(StripScheme(Lower(Strip(raw))), "/")

\* C11: every element of the normalized list is a valid Domain (non-empty,
\* lowercase, no leading http:// or https://, no "/"), and when every input has
\* an empty canonical form the list is empty (no "" and no bare "www." entry).
C11_OutputValid ==
    npc # "in"
    => /\ \A i \in 1..Len(nOut) : ValidDomain(nOut[i])
       /\ (\A i \in 1..Len(nIn) : CanonicalForm(nIn[i]) = <<>>) => nOut = <<>>

\* the position of the first occurrence of x in the sequence q, 0 if none
FirstIndex(q, x) == FirstAt(q, x, 1)

\* C12: for an input list none of whose domains has a "www." prefix, the
\* normalized list holds, for every input domain d, both d and "www." + d with
\* d before "www." + d; it holds no element twice; and its elements are those
\* of the expanded sequence, in the order of their first occurrences there.
C12_BareThenWww ==
    ( /\ npc # "in"
      /\ \A i \in 1..Len(nIn) : ~StartsWith(CanonicalForm(nIn[i]), WWW) )
    => /\ \A i \in 1..Len(nIn) :
            LET d == CanonicalForm(nIn[i]) IN
            d # <<>>
            => \E p, q \in 1..Len(nOut) :
                  p < q /\ nOut[p] = d /\ nOut[q] = WWW \o d
       /\ \A p, q \in 1..Len(nOut) : nOut[p] = nOut[q] => p = q
       /\ LET out == ExpandAll(nIn) IN
          /\ {nOut[p] : p \in 1..Len(nOut)} = {out[k] : k \in 1..Len(out)}
          /\ \A p, q \in 1..Len(nOut) :
                p < q => FirstIndex(out, nOut[p]) < FirstIndex(out, nOut[q])

\* C12 witness: two different raw strings of the same domain a were normalized;
\* the list is a, www.a.
C12_Witness ==
    /\ npc = "once"
    /\ Len(nIn) = 2 /\ nIn[1] # nIn[2]
    /\ CanonicalForm(nIn[1]) = <<"a">> /\ CanonicalForm(nIn[2]) = <<"a">>
    /\ nOut = << <<"a">>, WWW \o <<"a">> >>

\* ------------------------------------------------------------------------
\* More claims about the rooms
\* ------------------------------------------------------------------------
\* a string that is empty once trimmed
Blank(raw) == \A i \in 1..Len(raw) : raw[i] \in Whitespace

\* C13: the handler of a room:join, room:leave, timer:sync or timer:penalty
\* event whose roomId is missing or blank ends in its one step, changing no
\* room's membership and delivering nothing to any client; room:join and
\* room:leave return {ok: false, error: "missing roomId"}, the timer handlers
\* return nothing.
C13_MissingRoomIdRejected ==
    [][\A t \in tasks :
         ( /\ t.pc = "enter"
           /\ t.ev \in {"room:join", "room:leave", "timer:sync", "timer:penalty"}
           /\ Blank(t.raw) )
         => /\ tasks' = tasks \ {t}
            /\ rooms' = rooms
            /\ connected' = connected
            /\ inbox' = inbox
            /\ lastAck' =
                 [id |-> t.id, sid |-> t.sid, ev |-> t.ev,
                  ack |-> IF t.ev \in {"room:join", "room:leave"}
                          THEN [kind |-> "error", error |-> "missing roomId"]
                          ELSE [kind |-> "none"]]]_vars

\* C13 witness: s1, a member of room r with s2, sent room:leave without a room
\* id: the error came back, the room still holds both, nobody received anything.
C13_Witness ==
    /\ nev = 1 /\ tasks = {}
    /\ lastAck = [id |-> 1, sid |-> "s1", ev |-> "room:leave",
                  ack |-> [kind |-> "error", error |-> "missing roomId"]]
    /\ rooms[Room_r] = {"s1", "s2"}
    /\ \A s \in Sids : inbox[s] = <<>>

\* C15: a receiver never gets the relay of an event directly after the relay of
\* a different, later event of the same sender to the same room: when a timer
\* handler relays its event and the handler that completed just before it was
\* that of a later, different timer event of the same sender, no client's inbox
\* ends with the later event's message followed by this one's.
C15_PerSenderOrder ==
    [][\A t \in tasks :
         ( /\ t.ev \in TimerEvents /\ t \notin tasks'
           /\ lastAck.sid = t.sid /\ lastAck.ev \in TimerEvents
           /\ lastAck.id > t.id /\ lastAck.ev # t.ev )
         => \A m \in Sids :
              LET n == Len(inbox'[m]) IN
              ~ ( /\ n >= 2
                  /\ inbox'[m][n] = Msg(RelayEvent(t.ev), t.raw, -1, t.x)
                  /\ inbox'[m][n - 1] =
                        Msg(RelayEvent(lastAck.ev), t.raw, -1, t.x) )]_vars

\* the events the step delivers to client s
Received(s) == SubSeq(inbox'[s], Len(inbox[s]) + 1, Len(inbox'[s]))

\* the step is the last one of handler t
Returns(t) == \A u \in tasks' : u.id # t.id

\* C16: the handler of room:leave with a non-blank roomId takes the sender out
\* of the room named by the trimmed roomId and changes no other membership
\* (nothing at all when the sender was not in the room); its later steps change
\* no membership; and the member count in the room:left event and in the value
\* returned to the sender is the room's member count after the removal.
C16_LeaveOnlyThatRoom ==
    [][\A t \in tasks :
         (t.ev = "room:leave" /\ ~Blank(t.raw))
         => LET r == Strip(t.raw) IN
            /\ t.pc = "enter"
                 => /\ rooms'[r] = rooms[r] \ {t.sid}
                    /\ \A x \in RoomIds \ {r} : rooms'[x] = rooms[x]
                    /\ t.sid \notin rooms[r] => rooms' = rooms
            /\ t.pc # "enter" => rooms' = rooms
            /\ \A i \in 1..Len(Received(t.sid)) :
                 Received(t.sid)[i].ev = "room:left"
                 => Received(t.sid)[i] =
                       Msg("room:left", r, Cardinality(rooms'[r]), "")
            /\ Returns(t)
                 => lastAck'.ack = [kind |-> "ok", roomId |-> r,
                                    members |-> Cardinality(rooms'[r])]]_vars

\* C16 witness: s1, in room r with s2 and alone in room g, left room r: r holds
\* s2, g still holds s1, and s1 was told and returned the count 1.
C16_Witness ==
    /\ nev = 1 /\ tasks = {}
    /\ lastAck = [id |-> 1, sid |-> "s1", ev |-> "room:leave",
                  ack |-> [kind |-> "ok", roomId |-> Room_r, members |-> 1]]
    /\ rooms[Room_r] = {"s2"} /\ rooms[Room_g] = {"s1"}
    /\ \E i \in 1..Len(inbox["s1"]) :
          inbox["s1"][i] = Msg("room:left", Room_r, 1, "")

\* the last k events client s has received after the step (all of them when
\* they are fewer)
LastReceived(s, k) ==
    IF Len(inbox'[s]) < k THEN inbox'[s]
    ELSE SubSeq(inbox'[s], Len(inbox'[s]) - k + 1, Len(inbox'[s]))

\* C17: with the handlers run one at a time, when the handler of a room:join,
\* room:create or room:leave returns {ok: true}, the count n it returns is the
\* room's member count; the last event every other member of the room has
\* received is room:members with n; the acting client has received its own
\* event (room:joined, room:created, room:left) with n, followed, when it is a
\* member, by room:members with n; no membership changes between the
\* operation and the return; and joining a room again changes no membership.
C17_RoomNotifications ==
    [][\A t \in tasks :
         t.ev \in RoomEvents
         => /\ t.pc # "enter" => rooms' = rooms
            /\ ( /\ t.pc = "enter" /\ t.ev \in {"room:join", "room:create"}
                 /\ ~Blank(t.raw) /\ t.sid \in rooms[Strip(t.raw)] )
               => rooms' = rooms
            /\ (Returns(t) /\ lastAck'.ack.kind = "ok")
               => LET r == lastAck'.ack.roomId
                      n == Cardinality(rooms'[r])
                      members == Msg("room:members", r, n, "")
                      own == Msg(SelfEvent(t.ev), r, n, "")
                  IN  /\ lastAck'.ack.members = n
                      /\ lastAck'.sid = t.sid
                      /\ \A m \in rooms'[r] \ {t.sid} :
                            LastReceived(m, 1) = <<members>>
                      /\ IF t.sid \in rooms'[r]
                         THEN LastReceived(t.sid, 2) = <<own, members>>
                         ELSE LastReceived(t.sid, 1) = <<own>>
                      /\ t.ev = "room:leave" <=> t.sid \notin rooms'[r]]_vars

\* C17 witness: s3 joined room r, which held s1 and s2: it returned the count
\* 3, s3 received room:joined and room:members with 3, s1 and s2 room:members
\* with 3.
C17_Witness ==
    /\ nev = 1 /\ tasks = {}
    /\ lastAck = [id |-> 1, sid |-> "s3", ev |-> "room:join",
                  ack |-> [kind |-> "ok", roomId |-> Room_r, members |-> 3]]
    /\ rooms[Room_r] = {"s1", "s2", "s3"}
    /\ inbox["s1"] = <<Msg("room:members", Room_r, 3, "")>>
    /\ inbox["s2"] = <<Msg("room:members", Room_r, 3, "")>>
    /\ inbox["s3"] = <<Msg("room:joined", Room_r, 3, ""),
                       Msg("room:members", Room_r, 3, "")>>

\* C19: the handler of room:create never returns an error; with a non-blank
\* roomId it adds the sender to the room named by the trimmed roomId, as
\* room:join does; with an absent or blank roomId it adds the sender to a room
\* that had no member, changes no other room, and returns the count 1.
C19_CreateFresh ==
    [][\A t \in tasks :
         t.ev = "room:create"
         => /\ (t.pc = "enter" /\ ~Blank(t.raw))
               => rooms' = [rooms EXCEPT ![Strip(t.raw)] = @ \cup {t.sid}]
            /\ (t.pc = "enter" /\ Blank(t.raw))
               => \E r \in RoomIds :
                     /\ rooms[r] = {}
                     /\ rooms' = [rooms EXCEPT ![r] = {t.sid}]
            /\ Returns(t)
               => /\ lastAck'.ack.kind = "ok"
                  /\ Blank(t.raw) => lastAck'.ack.members = 1]_vars

\* C20: the handler of a timer:sync or timer:penalty event with a non-blank
\* roomId whose sender is not in the room delivers the event to every member
\* of the room, delivers nothing to the sender, and changes no membership.
C20_RelayFromNonMember ==
    [][\A t \in tasks :
         ( /\ t.ev \in TimerEvents /\ ~Blank(t.raw)
           /\ t.sid \notin rooms[Strip(t.raw)] )
         => /\ Returns(t)
            /\ rooms' = rooms
            /\ \A m \in rooms[Strip(t.raw)] :
                  Received(m) = <<Msg(RelayEvent(t.ev), t.raw, -1, t.x)>>
            /\ Received(t.sid) = <<>>]_vars

\* C20 witness: s1 left room r, which it shared with s2, and then sent
\* timer:sync to room r: s2 received timer:state, s1 is still out of the room.
C20_Witness ==
    /\ nev = 2 /\ tasks = {}
    /\ lastAck = [id |-> 2, sid |-> "s1", ev |-> "timer:sync",
                  ack |-> [kind |-> "none"]]
    /\ rooms[Room_r] = {"s2"}
    /\ inbox["s1"] = <<Msg("room:left", Room_r, 1, "")>>
    /\ inbox["s2"] = <<Msg("room:members", Room_r, 1, ""),
                       Msg("timer:state", <<" ", "r", " ">>, -1, "p1")>>

====
